---- MODULE Spec2Model ----
(***************************************************************************)
(* Model of the in-memory entity store (MemStorage) and of the reminder    *)
(* scheduler (scheduler.ts) of the meeting agent, together with the route  *)
(* handlers that drive them (routes.ts).                                   *)
(*                                                                         *)
(* Time is counted in half days: one calendar day is Day time units.  The  *)
(* JavaScript event loop runs every handler below to completion before the *)
(* next timer or request is served (the store's async methods contain no   *)
(* await, so every await in a handler resumes in a microtask), hence one   *)
(* action per handler.                                                     *)
(***************************************************************************)
EXTENDS Integers, Sequences, FiniteSets, TLC

\* ------------------------------------------------------------------ bounds
MaxTime == 3             \* the clock stops here
MaxRequests == 2         \* requests served after start that changed the state

\* --------------------------------------------------------------- constants
Day == 2                 \* setDate(getDate() - 1): one day, in time units

Null == <<>>             \* null / undefined
Some(x) == <<x>>         \* a present value

\* offsets of the sample data's due dates, in days (addSampleData)
SampleDueDays == <<7, -2, 10, 14, -5>>
SampleDecisionIds == <<1, 1, 2, 2, 3>>

\* the extraction results tried: single items due in the past, now and exactly
\* a day ahead, and a two-item result due more and less than a day ahead
ExtractionResults == {<<-1>>, <<0>>, <<Day>>, <<Day + 1, 1>>}

VARIABLES
  storage,        \* the MemStorage instance: its maps and id counters
  scheduledJobs,  \* scheduler.ts: action item id -> Job (or null)
  timers,         \* node-schedule: the pending invocations of one-off jobs
  nextSweep,      \* next run of the daily "0 0 * * *" job; Null before it is set
  now,            \* the wall clock
  started,        \* initializeScheduler has run
  cancelled,      \* history: ids cancelled since their last schedule call
  served,         \* history: the number of requests that changed the state
  raised,         \* history: an error has left scheduleActionItemReminder
  inFlight        \* the async functions suspended at an await on something
                  \* outside the process: transcribeAudio calls, and reminder
                  \* callbacks when the store is taken to answer in a later turn

vars == <<storage, scheduledJobs, timers, nextSweep, now, started, cancelled, served,
          raised, inFlight>>

\* ---------------------------------------------------------------- Map helpers
Has(m, k) == k \in DOMAIN m
MapSet(m, k, v) == (k :> v) @@ m
MapDelete(m, k) == [x \in DOMAIN m \ {k} |-> m[x]]
EmptyMap == <<>>

\* =================================================================== store
EmptyStorage ==
  [users |-> EmptyMap, decisions |-> EmptyMap, actionItems |-> EmptyMap,
   notifications |-> EmptyMap, recordings |-> EmptyMap,
   userId |-> 1, decisionId |-> 1, actionItemId |-> 1, notificationId |-> 1]

createUser(s, username) ==
  LET id == s.userId IN
  [s EXCEPT !.userId = id + 1,
            !.users = MapSet(@, id, [id |-> id, username |-> username])]

createDecision(s, t) ==
  LET id == s.decisionId IN
  [s EXCEPT !.decisionId = id + 1,
            !.decisions = MapSet(@, id, [id |-> id, createdAt |-> t])]

getDecision(s, id) ==
  IF Has(s.decisions, id) THEN Some(s.decisions[id]) ELSE Null

getNotification(s, id) ==
  IF Has(s.notifications, id) THEN Some(s.notifications[id]) ELSE Null

markNotificationAsReadUpsert(s, id) ==
  [s EXCEPT !.notifications = MapSet(@, id, [id |-> id, read |-> TRUE])]

markNotificationAsReadToggle(s, id) ==
  IF ~Has(s.notifications, id) THEN s
  ELSE [s EXCEPT !.notifications[id].read = ~@]

markNotificationAsRead(s, id) ==
  IF ~Has(s.notifications, id) THEN s
  ELSE [s EXCEPT !.notifications[id].read = TRUE]

\* the value markNotificationAsRead returns: the stored copy, or undefined
markNotificationAsReadResult(s, id) == getNotification(markNotificationAsRead(s, id), id)

getRecording(s, id) ==
  IF Has(s.recordings, id) THEN Some(s.recordings[id]) ELSE Null

\* a recording is [id, status, createdAt]; createdAt is optional
createRecording(s, recording, t) ==
  LET r == IF recording.createdAt = Null THEN [recording EXCEPT !.createdAt = Some(t)]
           ELSE recording
  IN [s EXCEPT !.recordings = MapSet(@, r.id, r)]

\* an update that stores the fields given in place of the recording
updateRecordingReplacing(s, id, updates) ==
  IF ~Has(s.recordings, id) THEN s
  ELSE [s EXCEPT !.recordings[id] = updates]

\* updates is a partial recording: a function on the names of the fields given
updateRecording(s, id, updates) ==
  IF ~Has(s.recordings, id) THEN s
  ELSE [s EXCEPT !.recordings[id] = updates @@ @]

updateRecordingResult(s, id, updates) == getRecording(updateRecording(s, id, updates), id)

createNotification(s, type, actionItemId, message, t) ==
  LET id == s.notificationId IN
  [s EXCEPT !.notificationId = id + 1,
            !.notifications = MapSet(@, id,
               [id |-> id, type |-> type, actionItemId |-> actionItemId,
                message |-> message, createdAt |-> t, read |-> FALSE])]

getActionItem(s, id) ==
  IF Has(s.actionItems, id) THEN Some(s.actionItems[id]) ELSE Null

createActionItemSameId(s, decisionId, dueDate, t) ==
  LET id == s.actionItemId
      s1 == [s EXCEPT !.actionItems = MapSet(@, id,
                         [id |-> id, decisionId |-> decisionId, dueDate |-> dueDate,
                          createdAt |-> t, completed |-> FALSE, completedAt |-> Null])]
  IN createNotification(s1, "new_assignment", id, "New action item assigned", t)

createActionItemUnannounced(s, decisionId, dueDate, t) ==
  LET id == s.actionItemId
  IN [s EXCEPT !.actionItemId = id + 1,
               !.actionItems = MapSet(@, id,
                  [id |-> id, decisionId |-> decisionId, dueDate |-> dueDate,
                   createdAt |-> t, completed |-> FALSE, completedAt |-> Null])]

createActionItem(s, decisionId, dueDate, t) ==
  LET id == s.actionItemId
      s1 == [s EXCEPT !.actionItemId = id + 1,
                      !.actionItems = MapSet(@, id,
                         [id |-> id, decisionId |-> decisionId, dueDate |-> dueDate,
                          createdAt |-> t, completed |-> FALSE, completedAt |-> Null])]
  IN createNotification(s1, "new_assignment", id, "New action item assigned", t)

updateActionItemCompletedOnly(s, id, completed, completedAt) ==
  IF ~Has(s.actionItems, id) THEN s
  ELSE [s EXCEPT !.actionItems[id].completed = completed]

\* updateActionItem(id, {completed, completedAt}): the only update the routes make
updateActionItem(s, id, completed, completedAt) ==
  IF ~Has(s.actionItems, id) THEN s
  ELSE [s EXCEPT !.actionItems[id].completed = completed,
                 !.actionItems[id].completedAt = completedAt]

\* the value updateActionItem returns: the stored copy, or undefined
updateActionItemResult(s, id, completed, completedAt) ==
  getActionItem(updateActionItem(s, id, completed, completedAt), id)

completeActionItemOnce(s, id, t) ==
  IF ~Has(s.actionItems, id) THEN s
  ELSE LET s1 == IF s.actionItems[id].completed THEN s
                 ELSE [s EXCEPT !.actionItems[id].completed = TRUE,
                                !.actionItems[id].completedAt = Some(t)]
       IN createNotification(s1, "item_completed", id, "Action item completed", t)

\* a completion that announces itself before looking the item up
completeActionItemAnnouncedFirst(s, id, t) ==
  LET s0 == createNotification(s, "item_completed", id, "Action item completed", t)
  IN IF ~Has(s.actionItems, id) THEN s0
     ELSE [s0 EXCEPT !.actionItems[id].completed = TRUE,
                     !.actionItems[id].completedAt = Some(t)]

completeActionItem(s, id, t) ==
  IF ~Has(s.actionItems, id) THEN s
  ELSE LET s1 == [s EXCEPT !.actionItems[id].completed = TRUE,
                           !.actionItems[id].completedAt = Some(t)]
       IN createNotification(s1, "item_completed", id, "Action item completed", t)

completeActionItemResult(s, id, t) == getActionItem(completeActionItem(s, id, t), id)

getOverdueActionItemsInclusive(s, t) ==
  {id \in DOMAIN s.actionItems :
     ~s.actionItems[id].completed /\ s.actionItems[id].dueDate <= t}

getOverdueActionItems(s, t) ==
  {id \in DOMAIN s.actionItems :
     ~s.actionItems[id].completed /\ s.actionItems[id].dueDate < t}

\* Array.prototype.sort by ascending dueDate; the sort is stable, so items of
\* equal due date keep the Map's insertion order, which is the order of their ids
RECURSIVE SortByDueDate(_, _)
SortByDueDate(s, ids) ==
  IF ids = {} THEN <<>>
  ELSE LET m == CHOOSE x \in ids : \A y \in ids :
                  \/ s.actionItems[x].dueDate < s.actionItems[y].dueDate
                  \/ /\ s.actionItems[x].dueDate = s.actionItems[y].dueDate
                     /\ x <= y
       IN <<m>> \o SortByDueDate(s, ids \ {m})

\* listActionItems({completed}): the ids of the result, in its order
listActionItemsCompleted(s, completed) ==
  SortByDueDate(s, {id \in DOMAIN s.actionItems : s.actionItems[id].completed = completed})

\* Array.prototype.slice(0, n)
Slice(list, n) ==
  IF n >= 0 THEN SubSeq(list, 1, IF n < Len(list) THEN n ELSE Len(list))
  ELSE SubSeq(list, 1, IF Len(list) + n > 0 THEN Len(list) + n ELSE 0)

\* limit ? list.slice(0, limit) : list -- limit is Null (undefined) or Some(n)
Limited(list, limit) ==
  IF limit # Null /\ limit[1] # 0 THEN Slice(list, limit[1]) ELSE list

\* Array.prototype.sort by descending createdAt of the entities of map m; the
\* sort is stable, so entities created at the same time keep the order of their
\* ids
RECURSIVE SortNewestFirst(_, _)
SortNewestFirst(m, ids) ==
  IF ids = {} THEN <<>>
  ELSE LET x == CHOOSE a \in ids : \A b \in ids :
                  \/ m[a].createdAt > m[b].createdAt
                  \/ m[a].createdAt = m[b].createdAt /\ a <= b
       IN <<x>> \o SortNewestFirst(m, ids \ {x})

\* the list methods yield the ids of their result, in its order
listDecisions(s, limit) ==
  Limited(SortNewestFirst(s.decisions, DOMAIN s.decisions), limit)

listActionItemsLastFilter(s, completed, decisionId, limit) ==
  LET all == DOMAIN s.actionItems
      f1 == IF completed # Null
            THEN {id \in all : s.actionItems[id].completed = completed[1]}
            ELSE all
      f2 == IF decisionId # Null
            THEN {id \in all : s.actionItems[id].decisionId = decisionId[1]}
            ELSE f1
  IN Limited(SortByDueDate(s, f2), limit)

\* listActionItems(filters, limit): completed and decisionId are the fields of
\* filters, each Null (undefined) or Some(value)
listActionItems(s, completed, decisionId, limit) ==
  LET all == DOMAIN s.actionItems
      f1 == IF completed # Null
            THEN {id \in all : s.actionItems[id].completed = completed[1]}
            ELSE all
      f2 == IF decisionId # Null
            THEN {id \in f1 : s.actionItems[id].decisionId = decisionId[1]}
            ELSE f1
  IN Limited(SortByDueDate(s, f2), limit)

listNotifications(s, read, limit) ==
  LET f == IF read # Null
           THEN {id \in DOMAIN s.notifications : s.notifications[id].read = read[1]}
           ELSE DOMAIN s.notifications
  IN Limited(SortNewestFirst(s.notifications, f), limit)

countUnreadNotificationsAll(s) == Len(listNotifications(s, Null, Null))

countUnreadNotifications(s) == Len(listNotifications(s, Some(FALSE), Null))

RECURSIVE addSampleItems(_, _, _)
addSampleItems(s, i, t) ==
  IF i > Len(SampleDueDays) THEN s
  ELSE addSampleItems(
         createActionItem(s, SampleDecisionIds[i], t + SampleDueDays[i] * Day, t),
         i + 1, t)

\* sample data whose last item is left open
addSampleDataAllOpen(s, t) ==
  LET s3 == createDecision(createDecision(createDecision(s, t), t), t)
  IN addSampleItems(s3, 1, t)

addSampleData(s, t) ==
  LET s3 == createDecision(createDecision(createDecision(s, t), t), t)
  IN completeActionItem(addSampleItems(s3, 1, t), 5, t)

\* new MemStorage()
NewMemStorage(t) == addSampleData(createUser(EmptyStorage, "alexmorgan"), t)

SeedItems == NewMemStorage(0).actionItemId - 1

\* =============================================================== scheduler
\* job.cancel(): drops the job's pending invocations
JobCancel(ts, job) == {t \in ts : t.job # job}

\* cancelActionItemReminder: state is <<scheduledJobs, timers>>
cancelJobs(jobs, id) ==
  IF Has(jobs, id) /\ jobs[id] # Null THEN MapDelete(jobs, id) ELSE jobs
cancelTimers(jobs, ts, id) ==
  IF Has(jobs, id) /\ jobs[id] # Null THEN JobCancel(ts, jobs[id][1]) ELSE ts

\* schedule.scheduleJob(date, fn): a one-off job is armed when its date is not
\* in the past, otherwise scheduleJob returns null
Armable(date, t) == date >= t

\* the "1 day before" branch of scheduleActionItemReminder
DayBeforeArmedAtNow(dueDate, t) == dueDate - Day >= t

\* a due-date job armed only together with the day-before job
DueDateArmedWithDayBefore(dueDate, t) == dueDate - Day > t

DayBeforeArmed(dueDate, t) == (dueDate - Day > t) /\ Armable(dueDate - Day, t)
DueDateArmed(dueDate, t) == Armable(dueDate, t)

\* new Job(): a Job object is named by a number no live object bears (none
\* pending, none held in scheduledJobs); avoid holds the numbers already taken
FreshJob(jobs, ts, avoid) ==
  LET used == {t.job : t \in ts} \cup {jobs[i][1] : i \in {k \in DOMAIN jobs : jobs[k] # Null}}
                \cup avoid
  IN CHOOSE n \in 1..(Cardinality(used) + 1) : n \notin used

\* scheduleActionItemReminder on the scheduler state sc = [jobs, timers]
scheduleActionItemReminder(sc, id, dueDate, t) ==
  LET ts0 == cancelTimers(sc.jobs, sc.timers, id)
      js0 == cancelJobs(sc.jobs, id)
      j1  == FreshJob(js0, ts0, {})
      before == IF DayBeforeArmed(dueDate, t)
                THEN {[job |-> j1, item |-> id, kind |-> "dayBefore", at |-> dueDate - Day]}
                ELSE {}
      j2  == FreshJob(js0, ts0, {x.job : x \in before})
      due == IF DueDateArmed(dueDate, t)
             THEN {[job |-> j2, item |-> id, kind |-> "dueDate", at |-> dueDate]}
             ELSE {}
      job == IF due = {} THEN Null ELSE Some(j2)
  IN [jobs   |-> MapSet(js0, id, job),
      timers |-> ts0 \cup before \cup due]

cancelActionItemReminder(sc, id) ==
  [jobs   |-> cancelJobs(sc.jobs, id),
   timers |-> cancelTimers(sc.jobs, sc.timers, id)]

Sched == [jobs |-> scheduledJobs, timers |-> timers]

SetSched(sc) ==
  /\ scheduledJobs' = sc.jobs
  /\ timers' = sc.timers

\* schedule a sequence of <<id, dueDate>> pairs, in order
RECURSIVE scheduleAll(_, _, _)
scheduleAll(sc, pairs, t) ==
  IF pairs = <<>> THEN sc
  ELSE scheduleAll(scheduleActionItemReminder(sc, Head(pairs)[1], Head(pairs)[2], t),
                   Tail(pairs), t)

\* ids of a set in ascending order (Map iteration order: insertion order)
RECURSIVE Ascending(_)
Ascending(S) ==
  IF S = {} THEN <<>>
  ELSE LET m == CHOOSE x \in S : \A y \in S : x <= y
       IN <<m>> \o Ascending(S \ {m})

\* ================================================================= actions
Init ==
  /\ now = 0
  /\ storage = NewMemStorage(0)
  /\ scheduledJobs = EmptyMap
  /\ timers = {}
  /\ nextSweep = Null
  /\ started = FALSE
  /\ cancelled = {}
  /\ served = 0
  /\ raised = FALSE
  /\ inFlight = [transcriptions |-> {}, callbacks |-> {}]

\* the event loop runs the timers that have expired before it serves the next
\* request (timers phase before the poll phase)
TimersExpired ==
  \/ \E t \in timers : t.at <= now
  \/ nextSweep # Null /\ nextSweep[1] <= now
Idle == started /\ ~TimersExpired

Request ==
  /\ Idle
  /\ served < MaxRequests

Served ==
  served' = IF <<storage, scheduledJobs, timers>>' = <<storage, scheduledJobs, timers>>
            THEN served ELSE served + 1

InitializeSchedulerAll(midnight) ==
  /\ ~started
  /\ LET items == listActionItemsCompleted(storage, FALSE)
         pairs == [i \in 1..Len(items) |-> <<items[i], storage.actionItems[items[i]].dueDate>>]
         sc == scheduleAll(Sched, pairs, now)
     IN /\ SetSched(sc)
        /\ cancelled' = cancelled \ {items[i] : i \in 1..Len(items)}
  /\ nextSweep' = Some(midnight)
  /\ started' = TRUE
  /\ UNCHANGED <<storage, now, served, raised, inFlight>>

\* initializeScheduler: the daily check, then a reminder for every incomplete
\* item whose due date is in the future.  midnight is the time of the next 00:00.
InitializeScheduler(midnight) ==
  /\ ~started
  /\ LET items == listActionItemsCompleted(storage, FALSE)
         future == SelectSeq(items, LAMBDA id : storage.actionItems[id].dueDate > now)
         pairs == [i \in 1..Len(future) |-> <<future[i], storage.actionItems[future[i]].dueDate>>]
         sc == scheduleAll(Sched, pairs, now)
     IN /\ SetSched(sc)
        /\ cancelled' = cancelled \ {future[i] : i \in 1..Len(future)}
  /\ nextSweep' = Some(midnight)
  /\ started' = TRUE
  /\ UNCHANGED <<storage, now, served, raised, inFlight>>

\* POST /api/extract (and /api/recordings/:id/extract): one decision, then the
\* action items of the extraction result; dues are their due dates.  Promise.all
\* over map(): every createActionItem runs first, the .then callbacks that
\* schedule the reminders run after them, in order.
RECURSIVE createItems(_, _, _, _)
createItems(s, decisionId, dues, t) ==
  IF dues = <<>> THEN s
  ELSE createItems(createActionItem(s, decisionId, Head(dues), t), decisionId, Tail(dues), t)

Extract(dues) ==
  /\ Request
  /\ LET decisionId == storage.decisionId
         first == storage.actionItemId
         s1 == createDecision(storage, now)
         s2 == createItems(s1, decisionId, dues, now)
         pairs == [i \in 1..Len(dues) |-> <<first + i - 1, dues[i]>>]
         sc == scheduleAll(Sched, pairs, now)
     IN /\ storage' = s2
        /\ SetSched(sc)
        /\ cancelled' = cancelled \ {first + i - 1 : i \in 1..Len(dues)}
  /\ Served
  /\ UNCHANGED <<nextSweep, now, started, raised, inFlight>>

\* POST /api/action-items/:id/complete
Complete(id) ==
  /\ Request
  /\ storage' = completeActionItem(storage, id, now)
  /\ IF getActionItem(storage, id) = Null
     THEN UNCHANGED <<scheduledJobs, timers, cancelled>>
     ELSE /\ SetSched(cancelActionItemReminder(Sched, id))
          /\ cancelled' = cancelled \cup {id}
  /\ Served
  /\ UNCHANGED <<nextSweep, now, started, raised, inFlight>>

\* POST /api/action-items/:id/uncomplete
Uncomplete(id) ==
  /\ Request
  /\ storage' = updateActionItem(storage, id, FALSE, Null)
  /\ LET actionItem == getActionItem(storage, id)
     IN IF actionItem # Null /\ actionItem[1].dueDate > now
        THEN LET sc == scheduleActionItemReminder(Sched, id, actionItem[1].dueDate, now)
             IN /\ SetSched(sc)
                /\ cancelled' = cancelled \ {id}
        ELSE UNCHANGED <<scheduledJobs, timers, cancelled>>
  /\ Served
  /\ UNCHANGED <<nextSweep, now, started, raised, inFlight>>

\* the callback of a one-off job, run by node-schedule when its time has come
ReminderMessageSame(kind) == "is due today"

ReminderMessage(kind) ==
  IF kind = "dayBefore" THEN "is due tomorrow" ELSE "is due today"

ReminderCallbackUnchecked(s, t, time) ==
  LET actionItem == getActionItem(s, t.item)
  IN IF actionItem # Null
     THEN createNotification(s, "action_reminder", t.item, ReminderMessage(t.kind), time)
     ELSE s

ReminderCallback(s, t, time) ==
  LET actionItem == getActionItem(s, t.item)
  IN IF actionItem # Null /\ ~actionItem[1].completed
     THEN createNotification(s, "action_reminder", t.item, ReminderMessage(t.kind), time)
     ELSE s

FireTimer(t) ==
  /\ started
  /\ t \in timers
  /\ t.at <= now
  /\ storage' = ReminderCallback(storage, t, now)
  /\ timers' = timers \ {t}
  /\ UNCHANGED <<scheduledJobs, nextSweep, now, started, cancelled, served, raised, inFlight>>

\* the callback of scheduleOverdueItemsCheck, once a day at midnight
RECURSIVE notifyOverdueOnce(_, _, _)
notifyOverdueOnce(s, ids, t) ==
  IF ids = <<>> THEN s
  ELSE notifyOverdueOnce(
         IF \E n \in DOMAIN s.notifications :
              /\ s.notifications[n].type = "overdue_reminder"
              /\ s.notifications[n].actionItemId = Head(ids)
         THEN s
         ELSE createNotification(s, "overdue_reminder", Head(ids), "is past its due date", t),
         Tail(ids), t)

RECURSIVE notifyOverdue(_, _, _)
notifyOverdue(s, ids, t) ==
  IF ids = <<>> THEN s
  ELSE notifyOverdue(
         createNotification(s, "overdue_reminder", Head(ids), "is past its due date", t),
         Tail(ids), t)

OverdueItemsCheck ==
  /\ started
  /\ nextSweep # Null
  /\ nextSweep[1] <= now
  /\ LET overdueItems == Ascending(getOverdueActionItems(storage, now))
     IN storage' = notifyOverdue(storage, overdueItems, now)
  /\ nextSweep' = Some(nextSweep[1] + Day)
  /\ UNCHANGED <<scheduledJobs, timers, now, started, cancelled, served, raised, inFlight>>

\* time passes; a timer whose time has come runs before the clock moves on
Tick ==
  /\ Idle
  /\ now < MaxTime
  /\ now' = now + 1
  /\ UNCHANGED <<storage, scheduledJobs, timers, nextSweep, started, cancelled, served,
                 raised, inFlight>>

\* the server starts half a day before midnight
Midnights == {1}

\* the ids a request may name: of the sample data an item due in the future (1)
\* and the completed one (5); every item created since; and one id that is not
\* stored
SampleIds == {1, 5}
RequestIds == SampleIds \cup ((SeedItems + 1)..storage.actionItemId)

Next ==
  \/ \E m \in Midnights : InitializeScheduler(m)
  \/ \E r \in ExtractionResults : Extract([i \in 1..Len(r) |-> now + r[i]])
  \/ \E id \in RequestIds : Complete(id)
  \/ \E id \in RequestIds : Uncomplete(id)
  \/ \E t \in timers : FireTimer(t)
  \/ OverdueItemsCheck
  \/ Tick

Spec == Init /\ [][Next]_vars

\* the same program when the event loop keeps turning: node-schedule runs the
\* jobs whose time has come, and the clock advances
Turn == Tick \/ (\E t \in timers : FireTimer(t)) \/ OverdueItemsCheck

LiveSpec == Spec /\ WF_vars(Turn)

\* ================================================================ failures
\* The flows of Spec with a failure injected: a scheduleJob call that throws
\* inside scheduleActionItemReminder during POST /api/extract, and a store call
\* that fails inside the daily check.  point names the scheduleJob call that
\* throws.
ArmingPoints == {"dayBefore", "dueDate"}

scheduleActionItemReminderUncaught(sc, id, dueDate, t, point) ==
  LET ts0 == cancelTimers(sc.jobs, sc.timers, id)
      js0 == cancelJobs(sc.jobs, id)
      j1  == FreshJob(js0, ts0, {})
      before == IF DayBeforeArmed(dueDate, t) /\ point # "dayBefore"
                THEN {[job |-> j1, item |-> id, kind |-> "dayBefore", at |-> dueDate - Day]}
                ELSE {}
  IN [jobs |-> js0, timers |-> ts0 \cup before, raised |-> TRUE]

\* the try block is left at the throwing call: what ran before it stays
\* (the cancel, the day-before job when the due-date call throws),
\* scheduledJobs.set is not reached, and the catch logs the error
scheduleActionItemReminderThrowing(sc, id, dueDate, t, point) ==
  LET ts0 == cancelTimers(sc.jobs, sc.timers, id)
      js0 == cancelJobs(sc.jobs, id)
      j1  == FreshJob(js0, ts0, {})
      before == IF DayBeforeArmed(dueDate, t) /\ point # "dayBefore"
                THEN {[job |-> j1, item |-> id, kind |-> "dayBefore", at |-> dueDate - Day]}
                ELSE {}
  IN [jobs |-> js0, timers |-> ts0 \cup before, raised |-> FALSE]

\* the .then callbacks of the batch, the k-th of them with the throwing call
RECURSIVE scheduleAllThrowing(_, _, _, _, _, _)
scheduleAllThrowing(sc, pairs, t, i, k, point) ==
  IF i > Len(pairs) THEN sc
  ELSE LET one == IF i = k
                  THEN scheduleActionItemReminderThrowing(
                         [jobs |-> sc.jobs, timers |-> sc.timers],
                         pairs[i][1], pairs[i][2], t, point)
                  ELSE scheduleActionItemReminder(
                         [jobs |-> sc.jobs, timers |-> sc.timers],
                         pairs[i][1], pairs[i][2], t) @@ [raised |-> FALSE]
       IN scheduleAllThrowing(
            [jobs |-> one.jobs, timers |-> one.timers, raised |-> sc.raised \/ one.raised],
            pairs, t, i + 1, k, point)

\* the status of the response of POST /api/extract
ExtractStatus(error) == IF error THEN 500 ELSE 201

\* POST /api/extract when arming a timer of its k-th action item throws
ExtractArmingFails(dues, k, point) ==
  /\ Request
  /\ k \in 1..Len(dues)
  /\ point = "dayBefore" => dues[k] - Day > now
  /\ LET decisionId == storage.decisionId
         first == storage.actionItemId
         s1 == createDecision(storage, now)
         s2 == createItems(s1, decisionId, dues, now)
         pairs == [i \in 1..Len(dues) |-> <<first + i - 1, dues[i]>>]
         sc == scheduleAllThrowing(Sched @@ [raised |-> FALSE], pairs, now, 1, k, point)
     IN /\ storage' = s2
        /\ SetSched(sc)
        /\ raised' = (raised \/ sc.raised)
        /\ cancelled' = cancelled \ {first + i - 1 : i \in 1..Len(dues)}
  /\ Served
  /\ UNCHANGED <<nextSweep, now, started, inFlight>>

\* the daily check when the createNotification call for its k-th overdue item
\* fails: the rejected await leaves the for loop, the catch around the loop logs
OverdueItemsCheckFails(k) ==
  /\ started
  /\ nextSweep # Null
  /\ nextSweep[1] <= now
  /\ LET overdueItems == Ascending(getOverdueActionItems(storage, now))
     IN /\ k \in 1..Len(overdueItems)
        /\ storage' = notifyOverdue(storage, SubSeq(overdueItems, 1, k - 1), now)
  /\ nextSweep' = Some(nextSweep[1] + Day)
  /\ UNCHANGED <<scheduledJobs, timers, now, started, cancelled, served, raised, inFlight>>

\* the extraction results tried with a failure: a single item already past due
\* and the two-item result
FailingExtractionResults == {<<-1>>, <<Day + 1, 1>>}

FaultNext ==
  \/ \E m \in Midnights : InitializeScheduler(m)
  \/ \E r \in FailingExtractionResults, k \in 1..2, point \in ArmingPoints :
       ExtractArmingFails([i \in 1..Len(r) |-> now + r[i]], k, point)
  \/ \E t \in timers : FireTimer(t)
  \/ OverdueItemsCheck
  \/ \E k \in 1..Cardinality(getOverdueActionItems(storage, now)) : OverdueItemsCheckFails(k)
  \/ Tick

FaultSpec == Init /\ [][FaultNext]_vars

\* =================================================================== calls
\* The store driven through its interface (IStorage) by any caller, one call of
\* a method per step, with ids that are stored and ids that are not.  served
\* counts the calls.
MaxCalls == 3

Call ==
  /\ ~started
  /\ served < MaxCalls
  /\ served' = served + 1
  /\ UNCHANGED <<scheduledJobs, timers, nextSweep, now, started, cancelled, raised, inFlight>>

\* the ids tried: an incomplete item, the completed one, and an id not stored;
\* of notifications the two oldest, the newest, and an id not stored
ActionItemIds == {1, 5, storage.actionItemId}
ReopenedIds == {5, storage.actionItemId}
NotificationIds == {1, 2, storage.notificationId - 1, storage.notificationId}
RecordingIds == {"r1", "r2"}
NewRecordings ==
  {[id |-> "r1", status |-> "pending", createdAt |-> Some(now)],
   [id |-> "r1", status |-> "pending", createdAt |-> Null]}
RecordingUpdates == {"status" :> "transcribing", "status" :> "failed", "createdAt" :> Null}

CallCreateActionItem(dueDate) ==
  /\ Call
  /\ storage' = createActionItem(storage, 1, dueDate, now)

CallUpdateActionItem(id) ==
  /\ Call
  /\ storage' = updateActionItem(storage, id, FALSE, Null)

CallCompleteActionItem(id) ==
  /\ Call
  /\ storage' = completeActionItem(storage, id, now)

CallCreateNotification(id) ==
  /\ Call
  /\ storage' = createNotification(storage, "action_reminder", id, "is due today", now)

CallMarkNotificationAsRead(id) ==
  /\ Call
  /\ storage' = markNotificationAsRead(storage, id)

CallCreateRecording(recording) ==
  /\ Call
  /\ storage' = createRecording(storage, recording, now)

CallUpdateRecording(id, updates) ==
  /\ Call
  /\ storage' = updateRecording(storage, id, updates)

CallCreateDecision ==
  /\ Call
  /\ storage' = createDecision(storage, now)

\* GET /api/stats, with a pending count taken from the unfiltered list
StatsAllPending(s, t) ==
  [pendingCount |-> Len(listActionItems(s, Null, Null, Null)),
   completedCount |-> Len(listActionItems(s, Some(TRUE), Null, Null)),
   decisionsCount |-> Len(listDecisions(s, Null)),
   overdueCount |-> Cardinality(getOverdueActionItems(s, t))]

\* GET /api/stats: the body of the response, the lengths of four store reads
Stats(s, t) ==
  [pendingCount |-> Len(listActionItems(s, Some(FALSE), Null, Null)),
   completedCount |-> Len(listActionItems(s, Some(TRUE), Null, Null)),
   decisionsCount |-> Len(listDecisions(s, Null)),
   overdueCount |-> Cardinality(getOverdueActionItems(s, t))]

\* the request itself: four reads, no write
StatsRequest ==
  /\ Call
  /\ Stats(storage, now).pendingCount >= 0
  /\ UNCHANGED storage

\* time passes between two calls
CallTick ==
  /\ ~started
  /\ now < MaxTime
  /\ now' = now + 1
  /\ UNCHANGED <<storage, scheduledJobs, timers, nextSweep, started, cancelled, served,
                 raised, inFlight>>

StoreNext ==
  \/ CallCreateActionItem(now - 1)
  \/ \E id \in ReopenedIds : CallUpdateActionItem(id)
  \/ \E id \in ActionItemIds : CallCompleteActionItem(id)
  \/ CallCreateNotification(1)
  \/ \E id \in NotificationIds : CallMarkNotificationAsRead(id)
  \/ \E r \in NewRecordings : CallCreateRecording(r)
  \/ \E id \in RecordingIds, u \in RecordingUpdates : CallUpdateRecording(id, u)
  \/ CallCreateDecision
  \/ StatsRequest
  \/ CallTick

StoreSpec == Init /\ [][StoreNext]_vars

\* ------------------------------------------------------------- recordings
\* POST /api/recordings/upload and the transcription it starts.  The ids are
\* uuidv4 values: a fresh one for every upload.
UploadIds == <<"r1", "r2", "r3">>
Transcript == "text"

\* POST /api/recordings/upload: the recording is created pending and
\* transcribeAudio is called without await; its first statement, the update to
\* transcribing, runs in the same turn, then it waits for the OpenAI answer
Upload ==
  /\ Request
  /\ Cardinality(DOMAIN storage.recordings) < Len(UploadIds)
  /\ LET recordingId == UploadIds[Cardinality(DOMAIN storage.recordings) + 1]
         s1 == createRecording(storage,
                 [id |-> recordingId, status |-> "pending", createdAt |-> Some(now)], now)
     IN /\ storage' = updateRecording(s1, recordingId, "status" :> "transcribing")
        /\ inFlight' = [inFlight EXCEPT !.transcriptions = @ \cup {recordingId}]
  /\ UNCHANGED <<scheduledJobs, timers, nextSweep, now, started, cancelled, raised>>
  /\ Served

\* transcribeAudio: openai.audio.transcriptions.create has returned
TranscriptionReturns(recordingId) ==
  /\ recordingId \in inFlight.transcriptions
  /\ storage' = updateRecording(storage, recordingId,
                   ("transcription" :> Transcript) @@ ("status" :> "completed"))
  /\ inFlight' = [inFlight EXCEPT !.transcriptions = @ \ {recordingId}]
  /\ UNCHANGED <<scheduledJobs, timers, nextSweep, now, started, cancelled, served,
                 raised>>

\* transcribeAudio whose catch block only logs and rethrows
TranscriptionFailsUnrecorded(recordingId) ==
  /\ recordingId \in inFlight.transcriptions
  /\ inFlight' = [inFlight EXCEPT !.transcriptions = @ \ {recordingId}]
  /\ UNCHANGED <<storage, scheduledJobs, timers, nextSweep, now, started, cancelled,
                 served, raised>>

\* transcribeAudio: the OpenAI call has failed; the catch block records it and
\* rethrows, and the .catch of the upload handler logs the error
TranscriptionFails(recordingId) ==
  /\ recordingId \in inFlight.transcriptions
  /\ storage' = updateRecording(storage, recordingId, "status" :> "failed")
  /\ inFlight' = [inFlight EXCEPT !.transcriptions = @ \ {recordingId}]
  /\ UNCHANGED <<scheduledJobs, timers, nextSweep, now, started, cancelled, served,
                 raised>>

TranscriptionEnds(recordingId) ==
  TranscriptionReturns(recordingId) \/ TranscriptionFails(recordingId)

RecordingNext ==
  \/ \E m \in Midnights : InitializeScheduler(m)
  \/ Upload
  \/ \E id \in inFlight.transcriptions : TranscriptionReturns(id)
  \/ \E id \in inFlight.transcriptions : TranscriptionFails(id)
  \/ OverdueItemsCheck
  \/ Tick

\* the OpenAI call of every transcription returns or fails
RecordingSpec ==
  /\ Init
  /\ [][RecordingNext]_vars
  /\ \A i \in 1..Len(UploadIds) : WF_vars(TranscriptionEnds(UploadIds[i]))

\* ------------------------------------------------- callbacks across turns
\* The reminder callback awaits storage.getActionItem and then, for an item
\* that is stored and incomplete, storage.createNotification.  With MemStorage
\* the first await resumes in the same turn of the event loop, which is
\* FireTimer above.  The scheduler is written against the interface IStorage,
\* whose methods return promises: here the answer of getActionItem arrives in
\* a later turn, so that requests are served between the two halves of the
\* callback.  A callback whose halves follow one another is FireTimer.
CallbackReads(t) ==
  /\ started
  /\ t \in timers
  /\ t.at <= now
  /\ timers' = timers \ {t}
  /\ inFlight' = [inFlight EXCEPT !.callbacks =
                    @ \cup {[timer |-> t, actionItem |-> getActionItem(storage, t.item)]}]
  /\ UNCHANGED <<storage, scheduledJobs, nextSweep, now, started, cancelled, served,
                 raised>>

\* the second half of the callback, on the item as it was read
AfterRead(s, c, time) ==
  IF c.actionItem # Null /\ ~c.actionItem[1].completed
  THEN createNotification(s, "action_reminder", c.timer.item,
                          ReminderMessage(c.timer.kind), time)
  ELSE s

\* a callback that stores the item it has read next to the notification
CallbackResumesWritingBack(c) ==
  /\ c \in inFlight.callbacks
  /\ storage' = IF c.actionItem # Null
                THEN [AfterRead(storage, c, now) EXCEPT
                        !.actionItems[c.timer.item] = c.actionItem[1]]
                ELSE storage
  /\ inFlight' = [inFlight EXCEPT !.callbacks = @ \ {c}]
  /\ UNCHANGED <<scheduledJobs, timers, nextSweep, now, started, cancelled, served,
                 raised>>

CallbackResumes(c) ==
  /\ c \in inFlight.callbacks
  /\ storage' = AfterRead(storage, c, now)
  /\ inFlight' = [inFlight EXCEPT !.callbacks = @ \ {c}]
  /\ UNCHANGED <<scheduledJobs, timers, nextSweep, now, started, cancelled, served,
                 raised>>

\* the extraction result used here: one item with both timers, one with the
\* due-date timer only
RaceExtractionResults == {<<Day + 1, 1>>}

\* the store answers long before the clock, counted in half days, moves on
RaceTick ==
  /\ inFlight.callbacks = {}
  /\ Tick

\* the items completed here are the extracted ones: the timers of the sample
\* data lie beyond the range of the clock
RaceIds == (SeedItems + 1)..(storage.actionItemId - 1)

RaceNext ==
  \/ \E m \in Midnights : InitializeScheduler(m)
  \/ \E r \in RaceExtractionResults : Extract([i \in 1..Len(r) |-> now + r[i]])
  \/ \E id \in RaceIds : Complete(id)
  \/ \E t \in timers : CallbackReads(t)
  \/ \E c \in inFlight.callbacks : CallbackResumes(c)
  \/ OverdueItemsCheck
  \/ RaceTick

RaceSpec == Init /\ [][RaceNext]_vars

\* ================================================================== claims
TimersOf(id) == {t \in timers : t.item = id}
KindOf(id, kind) == {t \in TimersOf(id) : t.kind = kind}
Notes(s, type, id) ==
  {n \in DOMAIN s.notifications :
     s.notifications[n].type = type /\ s.notifications[n].actionItemId = id}
NewIds(s) == {id \in DOMAIN s.actionItems : id > SeedItems}

\* C1: for every action item, the armed timers are those of the latest schedule
\* call only: at most one "day before" timer and at most one "due date" timer,
\* the two computed from the same due date.
C1_OnlyLatestTimersArmed ==
  \A id \in DOMAIN storage.actionItems :
    /\ Cardinality(KindOf(id, "dayBefore")) <= 1
    /\ Cardinality(KindOf(id, "dueDate")) <= 1
    /\ \A b \in KindOf(id, "dayBefore"), d \in KindOf(id, "dueDate") : b.at = d.at - Day

\* C2: once cancelActionItemReminder(id) has returned and no schedule call for
\* id has followed, no reminder callback for id runs.
C2_NoCallbackAfterCancel ==
  [][\A t \in timers : FireTimer(t) => t.item \notin cancelled]_vars

\* C3: an action item scheduled more than a day ahead (both timers armed) gets
\* no action_reminder notification in any step that finds it completed and
\* leaves it completed.
BothArmed(item) == item.dueDate - Day > item.createdAt

C3_NoReminderOnceCompleted ==
  [][\A id \in DOMAIN storage.actionItems :
       (/\ BothArmed(storage.actionItems[id])
        /\ storage.actionItems[id].completed
        /\ storage'.actionItems[id].completed)
       => Notes(storage', "action_reminder", id) = Notes(storage, "action_reminder", id)]_vars

\* a new item scheduled with both timers was completed, both fire times have
\* passed, and it has no reminder
C3_Witness ==
  \E id \in NewIds(storage) :
    /\ BothArmed(storage.actionItems[id])
    /\ storage.actionItems[id].completed
    /\ storage.actionItems[id].dueDate <= now
    /\ TimersOf(id) = {}
    /\ Notes(storage, "action_reminder", id) = {}

\* C4: the callback of a timer creates exactly one action_reminder notification
\* for its item, "due tomorrow" for the day-before timer and "due today" for the
\* due-date timer, when the item is stored and incomplete, and leaves the store
\* unchanged otherwise.
C4_CallbackEffect ==
  [][\A t \in timers : FireTimer(t) =>
       LET item == getActionItem(storage, t.item)
           n == storage.notificationId
       IN IF item # Null /\ ~item[1].completed
          THEN /\ storage'.notificationId = n + 1
               /\ DOMAIN storage'.notifications = DOMAIN storage.notifications \cup {n}
               /\ n \notin DOMAIN storage.notifications
               /\ \A k \in DOMAIN storage.notifications :
                    storage'.notifications[k] = storage.notifications[k]
               /\ storage'.notifications[n].type = "action_reminder"
               /\ storage'.notifications[n].actionItemId = t.item
               /\ storage'.notifications[n].message =
                    (IF t.kind = "dayBefore" THEN "is due tomorrow" ELSE "is due today")
               /\ storage'.notifications[n].read = FALSE
               /\ [storage' EXCEPT !.notifications = storage.notifications,
                                   !.notificationId = n] = storage
          ELSE storage' = storage]_vars

\* both kinds of reminder have been created, and a callback has found its item
\* completed and dropped the reminder
C4_Witness ==
  /\ \E n \in DOMAIN storage.notifications :
       storage.notifications[n].message = "is due tomorrow"
  /\ \E n \in DOMAIN storage.notifications :
       storage.notifications[n].message = "is due today"

C4_WitnessStale ==
  \E id \in NewIds(storage) :
    /\ storage.actionItems[id].completed
    /\ storage.actionItems[id].completedAt[1] < storage.actionItems[id].dueDate - Day
    /\ storage.actionItems[id].dueDate - Day <= now
    /\ KindOf(id, "dayBefore") = {}
    /\ BothArmed(storage.actionItems[id])

\* C5 (as stated): a schedule call arms the day-before timer iff dueDate - 1 day
\* is later than the current time and the due-date timer iff dueDate is later
\* than the current time; an item due in the past is overdue at once.
ArmedAsStated(s, id, t, dueLater) ==
  LET due == s.actionItems[id].dueDate
  IN /\ KindOf(id, "dayBefore")' =
          (IF due - Day > t THEN {x \in timers' : x.item = id /\ x.kind = "dayBefore" /\ x.at = due - Day}
           ELSE {})
     /\ Cardinality(KindOf(id, "dayBefore")') <= 1
     /\ (KindOf(id, "dayBefore")' # {}) <=> (due - Day > t)
     /\ Cardinality(KindOf(id, "dueDate")') <= 1
     /\ (KindOf(id, "dueDate")' # {}) <=> dueLater
     /\ \A x \in KindOf(id, "dueDate")' : x.at = due
     /\ (due < t) => id \in getOverdueActionItems(s, t)

C6_TimersInStep ==
  [][\A id \in DOMAIN storage.actionItems :
       /\ Complete(id) =>
            (id \notin DOMAIN scheduledJobs' /\ TimersOf(id)' = {})
       /\ (Uncomplete(id) /\ storage.actionItems[id].dueDate > now) =>
            (/\ id \in DOMAIN scheduledJobs'
             /\ Cardinality(KindOf(id, "dueDate")') = 1
             /\ Cardinality(KindOf(id, "dayBefore")') <= 1
             /\ \A x \in KindOf(id, "dueDate")' : x.at = storage.actionItems[id].dueDate
             /\ ~storage'.actionItems[id].completed
             /\ storage'.actionItems[id].completedAt = Null)]_vars

\* C7: once the due-date callback of an item has run, scheduledJobs has no entry
\* for the item.
C7_RemovedAfterFiring ==
  [][\A t \in timers : (FireTimer(t) /\ t.kind = "dueDate") =>
       t.item \notin DOMAIN scheduledJobs']_vars

\* C8: for users, decisions, action items and notifications, every create
\* returns an id greater than all ids returned before for the kind, and no two
\* stored entities of a kind share an id: the stored ids are those below the
\* kind's counter, each entity stored under its own id, and a step adds only ids
\* from the old counter upwards.
Kinds == {"users", "decisions", "actionItems", "notifications"}
MapOf(s, kind) ==
  CASE kind = "users" -> s.users
    [] kind = "decisions" -> s.decisions
    [] kind = "actionItems" -> s.actionItems
    [] kind = "notifications" -> s.notifications
CounterOf(s, kind) ==
  CASE kind = "users" -> s.userId
    [] kind = "decisions" -> s.decisionId
    [] kind = "actionItems" -> s.actionItemId
    [] kind = "notifications" -> s.notificationId

IdsSequential(s) ==
  \A kind \in Kinds :
    /\ DOMAIN MapOf(s, kind) = 1..(CounterOf(s, kind) - 1)
    /\ \A id \in DOMAIN MapOf(s, kind) : MapOf(s, kind)[id].id = id

IdsGrow(s, s2) ==
  \A kind \in Kinds :
    /\ DOMAIN MapOf(s, kind) \subseteq DOMAIN MapOf(s2, kind)
    /\ \A id \in DOMAIN MapOf(s2, kind) \ DOMAIN MapOf(s, kind) :
         /\ id >= CounterOf(s, kind)
         /\ \A old \in DOMAIN MapOf(s, kind) : id > old

C8_IdsStrictlyIncreasing ==
  /\ [](IdsSequential(storage))
  /\ [][IdsGrow(storage, storage')]_vars

\* an extraction has created two action items in one batch
C8_Witness ==
  \E a, b \in NewIds(storage) :
    /\ b = a + 1
    /\ storage.actionItems[a].decisionId = storage.actionItems[b].decisionId
    /\ storage.actionItems[a].decisionId \notin DOMAIN NewMemStorage(0).decisions
    /\ Cardinality(Notes(storage, "new_assignment", a)) = 1
    /\ Cardinality(Notes(storage, "new_assignment", b)) = 1

\* C9: every stored action item is completed exactly when its completedAt is
\* not null.
C9_CompletedIffCompletedAt ==
  \A id \in DOMAIN storage.actionItems :
    storage.actionItems[id].completed <=> (storage.actionItems[id].completedAt # Null)

\* an item was completed and then reopened, another is completed
C9_Witness ==
  /\ \E id \in DOMAIN storage.actionItems :
       /\ ~storage.actionItems[id].completed
       /\ Notes(storage, "item_completed", id) # {}
  /\ \E id \in DOMAIN storage.actionItems : storage.actionItems[id].completed

\* C10: completeActionItem on a stored item leaves it completed with completedAt
\* the time of the call, whatever it was before, and creates exactly one
\* item_completed notification for the item.
C10_CompleteEffect ==
  [][\A id \in DOMAIN storage.actionItems : Complete(id) =>
       LET n == storage.notificationId
       IN /\ storage'.actionItems[id].completed
          /\ storage'.actionItems[id].completedAt = Some(now)
          /\ storage'.actionItems =
               [storage.actionItems EXCEPT ![id].completed = TRUE,
                                           ![id].completedAt = Some(now)]
          /\ DOMAIN storage'.notifications = DOMAIN storage.notifications \cup {n}
          /\ n \notin DOMAIN storage.notifications
          /\ \A k \in DOMAIN storage.notifications :
               storage'.notifications[k] = storage.notifications[k]
          /\ storage'.notifications[n].type = "item_completed"
          /\ storage'.notifications[n].actionItemId = id]_vars

\* an item completed twice carries the time of the second completion
C10_Witness ==
  \E id \in DOMAIN storage.actionItems :
    /\ Cardinality(Notes(storage, "item_completed", id)) = 2
    /\ storage.actionItems[id].completed
    /\ \E n \in Notes(storage, "item_completed", id) :
         storage.notifications[n].createdAt < storage.actionItems[id].completedAt[1]

\* C11: getOverdueActionItems returns exactly the stored action items that are
\* incomplete and due strictly before the current time: an item due exactly now
\* is not in the result and a completed item never is, whatever its due date.
C11_OverdueExactly ==
  LET overdue == getOverdueActionItems(storage, now)
  IN /\ \A id \in DOMAIN storage.actionItems :
          id \in overdue <=>
            (storage.actionItems[id].completed = FALSE /\ storage.actionItems[id].dueDate < now)
     /\ overdue \subseteq DOMAIN storage.actionItems
     /\ \A id \in DOMAIN storage.actionItems :
          storage.actionItems[id].dueDate = now => id \notin overdue
     /\ \A id \in DOMAIN storage.actionItems :
          storage.actionItems[id].completedAt # Null => id \notin overdue

\* an incomplete item is due exactly now, a new item is overdue, and a completed
\* item has its due date in the past
C11_Witness ==
  /\ \E id \in DOMAIN storage.actionItems :
       ~storage.actionItems[id].completed /\ storage.actionItems[id].dueDate = now
  /\ \E id \in NewIds(storage) : id \in getOverdueActionItems(storage, now)
  /\ \E id \in DOMAIN storage.actionItems :
       storage.actionItems[id].completed /\ storage.actionItems[id].dueDate < now

\* C12: a run of the daily sweep creates exactly one overdue_reminder for every
\* item overdue at the run and nothing else; nothing is de-duplicated, so after
\* every run an item never completed has one overdue_reminder for every run so
\* far that found it stored and past its due date.
SweepsBefore(sweep) ==
  {m \in 0..MaxTime :
     /\ sweep # Null
     /\ m < sweep[1]
     /\ \E first \in Midnights : m >= first /\ (m - first) % Day = 0}

SweepsRun == SweepsBefore(nextSweep)

SweepEffect ==
  LET overdue == {id \in DOMAIN storage.actionItems :
                    ~storage.actionItems[id].completed /\ storage.actionItems[id].dueDate < now}
      new == DOMAIN storage'.notifications \ DOMAIN storage.notifications
  IN /\ \A n \in new : storage'.notifications[n].type = "overdue_reminder"
     /\ \A id \in DOMAIN storage.actionItems :
          Cardinality({n \in new : storage'.notifications[n].actionItemId = id}) =
            (IF id \in overdue THEN 1 ELSE 0)
     /\ \A n \in new : storage'.notifications[n].actionItemId \in overdue
     /\ \A n \in DOMAIN storage.notifications :
          storage'.notifications[n] = storage.notifications[n]
     /\ storage'.actionItems = storage.actionItems

OnePerRun(s, sweep) ==
  \A id \in DOMAIN s.actionItems :
    Notes(s, "item_completed", id) = {} =>
      Cardinality(Notes(s, "overdue_reminder", id)) =
        Cardinality({m \in SweepsBefore(sweep) : /\ s.actionItems[id].dueDate < m
                                                 /\ s.actionItems[id].createdAt < m})

InitializeEffect ==
  \A id \in DOMAIN storage.actionItems :
    LET item == storage.actionItems[id]
    IN /\ id \in DOMAIN scheduledJobs' <=> (~item.completed /\ item.dueDate > now)
       /\ id \in DOMAIN scheduledJobs' =>
            /\ scheduledJobs'[id] # Null
            /\ \E t \in timers' : /\ t.item = id /\ t.kind = "dueDate"
                                   /\ t.at = item.dueDate /\ t.job = scheduledJobs'[id][1]
       /\ id \notin DOMAIN scheduledJobs' => {t \in timers' : t.item = id} = {}

MissedAtStart(id) ==
  /\ id \in 1..SeedItems
  /\ storage.actionItems[id].dueDate < storage.actionItems[id].createdAt

C13_InitializeRegisters ==
  /\ [][\A m \in Midnights : InitializeScheduler(m) => InitializeEffect]_vars
  /\ [](\A id \in DOMAIN storage.actionItems :
          MissedAtStart(id) =>
            (Notes(storage, "action_reminder", id) = {} /\ TimersOf(id) = {}))

\* after the start: a registered item with both timers, an incomplete item that
\* was past due at the start and is mentioned by the sweep only, and the
\* completed item of the sample data reopened without a registration
C13_Witness ==
  /\ started
  /\ \E id \in DOMAIN scheduledJobs : Cardinality(TimersOf(id)) = 2
  /\ \E id \in DOMAIN storage.actionItems :
       /\ MissedAtStart(id)
       /\ Notes(storage, "item_completed", id) = {}
       /\ Notes(storage, "overdue_reminder", id) # {}
       /\ id \notin DOMAIN scheduledJobs
  /\ \E id \in DOMAIN storage.actionItems :
       /\ MissedAtStart(id)
       /\ Notes(storage, "item_completed", id) # {}
       /\ ~storage.actionItems[id].completed
       /\ id \notin DOMAIN scheduledJobs

\* C14: when the store fails for one item of a run of the daily check, every
\* other item overdue at the run still gets its overdue_reminder, and no error
\* leaves the scheduler.
C14_OthersStillNotified ==
  [][\A k \in 1..Cardinality(getOverdueActionItems(storage, now)) :
       OverdueItemsCheckFails(k) =>
         LET overdueItems == Ascending(getOverdueActionItems(storage, now))
             new == DOMAIN storage'.notifications \ DOMAIN storage.notifications
         IN /\ \A i \in (1..Len(overdueItems)) \ {k} :
                 Cardinality({n \in new :
                    /\ storage'.notifications[n].type = "overdue_reminder"
                    /\ storage'.notifications[n].actionItemId = overdueItems[i]}) = 1
            /\ raised' = raised]_vars

\* C15: no error leaves scheduleActionItemReminder: when arming a timer of a
\* new action item throws, the item stays stored as it was created, the other
\* items of the request are scheduled, and the request is answered with 201.
ArmingFailureEffect(dues, k) ==
  LET id == storage.actionItemId + k - 1
  IN /\ raised' = FALSE
     /\ ExtractStatus(raised') = 201
     /\ DOMAIN storage'.actionItems =
          DOMAIN storage.actionItems \cup (storage.actionItemId..(storage.actionItemId + Len(dues) - 1))
     /\ storage'.actionItems[id].dueDate = dues[k]
     /\ ~storage'.actionItems[id].completed
     /\ id \notin DOMAIN scheduledJobs'
     /\ \A i \in (1..Len(dues)) \ {k} :
          (storage.actionItemId + i - 1) \in DOMAIN scheduledJobs'

C15_ScheduleNeverRaises ==
  /\ [](raised = FALSE)
  /\ [][\A r \in FailingExtractionResults, k \in 1..2, point \in ArmingPoints :
          ExtractArmingFails([i \in 1..Len(r) |-> now + r[i]], k, point) =>
            ArmingFailureEffect([i \in 1..Len(r) |-> now + r[i]], k)]_vars

\* arming the due-date timer of a new item has thrown after its day-before timer
\* was armed: the item is stored, has no entry in scheduledJobs, and the other
\* item of the request has its own
C15_Witness ==
  \E a, b \in NewIds(storage) :
    /\ a \notin DOMAIN scheduledJobs
    /\ KindOf(a, "dayBefore") # {}
    /\ KindOf(a, "dueDate") = {}
    /\ storage.actionItems[b].decisionId = storage.actionItems[a].decisionId
    /\ b \in DOMAIN scheduledJobs
    /\ ~raised

\* C16: an id-keyed method called with an id that is not stored returns
\* undefined and leaves the whole store as it was: the lookups in every state,
\* the updating methods in every call.
AbsentLookups ==
  /\ \A id \in {0, storage.decisionId} : getDecision(storage, id) = Null
  /\ \A id \in {0, storage.actionItemId} : getActionItem(storage, id) = Null
  /\ \A id \in {0, storage.notificationId} : getNotification(storage, id) = Null
  /\ \A id \in RecordingIds \ DOMAIN storage.recordings : getRecording(storage, id) = Null

AbsentCalls ==
  /\ \A id \in (ActionItemIds \cup ReopenedIds) \ DOMAIN storage.actionItems :
       /\ CallUpdateActionItem(id) =>
            (storage' = storage /\ updateActionItemResult(storage, id, FALSE, Null) = Null)
       /\ CallCompleteActionItem(id) =>
            (storage' = storage /\ completeActionItemResult(storage, id, now) = Null)
  /\ \A id \in NotificationIds \ DOMAIN storage.notifications :
       CallMarkNotificationAsRead(id) =>
         (storage' = storage /\ markNotificationAsReadResult(storage, id) = Null)
  /\ \A id \in RecordingIds \ DOMAIN storage.recordings, u \in RecordingUpdates :
       CallUpdateRecording(id, u) =>
         (storage' = storage /\ updateRecordingResult(storage, id, u) = Null)

C16_NotFoundChangesNothing ==
  /\ [](AbsentLookups)
  /\ [][AbsentCalls]_vars

\* calls have been made, every one of them with an id that is not stored: the
\* store is the one the constructor built
C16_Witness ==
  /\ served = MaxCalls
  /\ now = 0
  /\ storage = NewMemStorage(0)

\* C17: in every state the incomplete and the completed action items listed are
\* disjoint and together are the items listed without filter, and with both
\* filters given the result holds exactly the items that satisfy both.
Range(list) == {list[i] : i \in 1..Len(list)}
NoDuplicates(list) == Cardinality(Range(list)) = Len(list)

C17_FiltersPartition ==
  LET pending == listActionItems(storage, Some(FALSE), Null, Null)
      completed == listActionItems(storage, Some(TRUE), Null, Null)
      all == listActionItems(storage, Null, Null, Null)
  IN /\ Range(pending) \cap Range(completed) = {}
     /\ Range(pending) \cup Range(completed) = Range(all)
     /\ Range(all) = DOMAIN storage.actionItems
     /\ NoDuplicates(pending) /\ NoDuplicates(completed) /\ NoDuplicates(all)
     /\ \A c \in BOOLEAN, d \in 0..storage.decisionId :
          LET both == listActionItems(storage, Some(c), Some(d), Null)
          IN /\ NoDuplicates(both)
             /\ Range(both) = {id \in DOMAIN storage.actionItems :
                                 /\ storage.actionItems[id].completed = c
                                 /\ storage.actionItems[id].decisionId = d}

\* a decision has a completed and an incomplete action item, and another
\* decision has a completed item too
C17_Witness ==
  \E d \in DOMAIN storage.decisions :
    /\ listActionItems(storage, Some(TRUE), Some(d), Null) # <<>>
    /\ listActionItems(storage, Some(FALSE), Some(d), Null) # <<>>
    /\ Len(listActionItems(storage, Some(TRUE), Null, Null)) >
         Len(listActionItems(storage, Some(TRUE), Some(d), Null))

\* C18: for every limit, 0 included, a list method yields the first
\* min(limit, n) entries of its unlimited result, never more than limit; the
\* unlimited result is ordered newest createdAt first for decisions and
\* notifications and by ascending dueDate for action items.
Limits == {0, 1, 2, 20}

FirstOf(list, n) == SubSeq(list, 1, IF n < Len(list) THEN n ELSE Len(list))

NewestFirst(m, list) ==
  \A i, j \in 1..Len(list) : i < j => m[list[i]].createdAt >= m[list[j]].createdAt

DueAscending(m, list) ==
  \A i, j \in 1..Len(list) : i < j => m[list[i]].dueDate <= m[list[j]].dueDate

TruncatesTo(limited, full, n) ==
  /\ limited = FirstOf(full, n)
  /\ Len(limited) <= n

LimitAsStated(limits) ==
  /\ NewestFirst(storage.decisions, listDecisions(storage, Null))
  /\ NewestFirst(storage.notifications, listNotifications(storage, Null, Null))
  /\ DueAscending(storage.actionItems, listActionItems(storage, Null, Null, Null))
  /\ \A n \in limits :
       /\ TruncatesTo(listDecisions(storage, Some(n)), listDecisions(storage, Null), n)
       /\ \A read \in {Null, Some(FALSE), Some(TRUE)} :
            TruncatesTo(listNotifications(storage, read, Some(n)),
                        listNotifications(storage, read, Null), n)
       /\ \A completed \in {Null, Some(FALSE), Some(TRUE)} :
            TruncatesTo(listActionItems(storage, completed, Null, Some(n)),
                        listActionItems(storage, completed, Null, Null), n)

C18_LimitTruncates == LimitAsStated(Limits)

\* C19: countUnreadNotifications is the number of stored notifications with
\* read = false: 3 after three notifications were created in an empty store, 1
\* after two of them were marked read; a call that creates a notification adds
\* one, marking an unread notification takes one away, and marking a
\* notification that is already read leaves the count as it was.
Unread(s) == {n \in DOMAIN s.notifications : s.notifications[n].read = FALSE}

ThreeCreated ==
  LET s1 == createNotification(EmptyStorage, "new_assignment", 1, "New action item assigned", 0)
      s2 == createNotification(s1, "action_reminder", 1, "is due today", 0)
  IN createNotification(s2, "item_completed", 1, "Action item completed", 0)

CountScenario ==
  /\ countUnreadNotifications(EmptyStorage) = 0
  /\ countUnreadNotifications(ThreeCreated) = 3
  /\ countUnreadNotifications(markNotificationAsRead(ThreeCreated, 1)) = 2
  /\ countUnreadNotifications(
       markNotificationAsRead(markNotificationAsRead(ThreeCreated, 1), 3)) = 1
  /\ countUnreadNotifications(
       markNotificationAsRead(markNotificationAsRead(ThreeCreated, 1), 1)) = 2

CountStep ==
  LET count == countUnreadNotifications(storage)
      count2 == countUnreadNotifications(storage')
  IN /\ CallCreateNotification(1) => count2 = count + 1
     /\ \A id \in NotificationIds :
          CallMarkNotificationAsRead(id) =>
            count2 = (IF id \in Unread(storage) THEN count - 1 ELSE count)

C19_UnreadCount ==
  /\ [](countUnreadNotifications(storage) = Cardinality(Unread(storage)))
  /\ [](CountScenario)
  /\ [][CountStep]_vars

\* three calls have left two notifications read and nothing else changed (the
\* third named a notification already read or an id not stored): the count is
\* two below the number of notifications
C19_Witness ==
  /\ served = 3
  /\ now = 0
  /\ Cardinality(DOMAIN storage.notifications \ Unread(storage)) = 2
  /\ DOMAIN storage.notifications = DOMAIN NewMemStorage(0).notifications
  /\ storage.actionItems = NewMemStorage(0).actionItems
  /\ storage.recordings = EmptyMap
  /\ countUnreadNotifications(storage) = Cardinality(DOMAIN storage.notifications) - 2

\* C20: a notification is created unread, is never removed, and once read stays
\* read: no step takes a notification id away, turns read back to false, or
\* adds a notification that is already read.
C20_ReadOneWay ==
  [][/\ DOMAIN storage.notifications \subseteq DOMAIN storage'.notifications
     /\ \A n \in DOMAIN storage.notifications :
          storage.notifications[n].read => storage'.notifications[n].read
     /\ \A n \in DOMAIN storage'.notifications \ DOMAIN storage.notifications :
          storage'.notifications[n].read = FALSE]_vars

\* a notification of the constructor has been marked read, and notifications
\* created since are unread
C20_Witness ==
  /\ \E n \in DOMAIN NewMemStorage(0).notifications : storage.notifications[n].read
  /\ \E n \in DOMAIN storage.notifications \ DOMAIN NewMemStorage(0).notifications :
       ~storage.notifications[n].read
  /\ served = MaxCalls

\* C21: the statistics request answers with the number of incomplete items,
\* of completed items, of decisions and of overdue items as the store holds
\* them: pending plus completed is the number of items, overdue is at most
\* pending, and the request changes neither the store nor the scheduler.
C21_StatsAsStored ==
  /\ [](LET r == Stats(storage, now)
             items == storage.actionItems
         IN /\ r.pendingCount = Cardinality({id \in DOMAIN items : ~items[id].completed})
            /\ r.completedCount = Cardinality({id \in DOMAIN items : items[id].completed})
            /\ r.decisionsCount = Cardinality(DOMAIN storage.decisions)
            /\ r.overdueCount =
                 Cardinality({id \in DOMAIN items :
                                ~items[id].completed /\ items[id].dueDate < now})
            /\ r.pendingCount + r.completedCount = Cardinality(DOMAIN items)
            /\ r.overdueCount <= r.pendingCount)
  /\ [][StatsRequest =>
          UNCHANGED <<storage, scheduledJobs, timers, nextSweep, cancelled>>]_vars

\* a decision was created, item 1 completed and the statistics then asked
\* for: four decisions, two completed items, three incomplete, one overdue
C21_Witness ==
  /\ served = 3
  /\ Stats(storage, now) = [pendingCount |-> 3, completedCount |-> 2,
                            decisionsCount |-> 4, overdueCount |-> 1]

\* C22: the status of a recording only moves forward, from pending to
\* transcribing to completed or failed; completed and failed are final; a
\* recording has a transcription only when it is completed; and every
\* uploaded recording reaches completed or failed once its transcription call
\* returns or fails.
StatusRank(status) ==
  CASE status = "pending" -> 1
    [] status = "transcribing" -> 2
    [] status \in {"completed", "failed"} -> 3

C22_StatusMovesForward ==
  /\ [][\A id \in DOMAIN storage.recordings :
          LET old == storage.recordings[id]
              new == storage'.recordings[id]
          IN /\ id \in DOMAIN storage'.recordings
             /\ StatusRank(new.status) >= StatusRank(old.status)
             /\ StatusRank(new.status) <= StatusRank(old.status) + 1
             /\ old.status \in {"completed", "failed"} => new = old]_vars
  /\ [](\A id \in DOMAIN storage.recordings :
          "transcription" \in DOMAIN storage.recordings[id]
            => storage.recordings[id].status = "completed")
  /\ \A i \in 1..Len(UploadIds) :
       (UploadIds[i] \in DOMAIN storage.recordings)
         ~> (/\ UploadIds[i] \in DOMAIN storage.recordings
             /\ storage.recordings[UploadIds[i]].status \in {"completed", "failed"})

\* one recording has been transcribed, another has failed, none is in flight
C22_Witness ==
  /\ inFlight.transcriptions = {}
  /\ \E a, b \in DOMAIN storage.recordings :
       /\ storage.recordings[a].status = "completed"
       /\ storage.recordings[a].transcription = Transcript
       /\ storage.recordings[b].status = "failed"
       /\ "transcription" \notin DOMAIN storage.recordings[b]

\* C23: createActionItem stores the new item with completed = false and
\* completedAt = null and creates exactly one new_assignment notification
\* that names it: in every state there are as many new_assignment
\* notifications as action items, one for each item.
Assignments(s) ==
  {n \in DOMAIN s.notifications : s.notifications[n].type = "new_assignment"}

C23_OneAssignmentPerItem ==
  /\ [](/\ Cardinality(Assignments(storage)) = Cardinality(DOMAIN storage.actionItems)
        /\ \A id \in DOMAIN storage.actionItems :
             Cardinality(Notes(storage, "new_assignment", id)) = 1)
  /\ [][\A id \in DOMAIN storage'.actionItems \ DOMAIN storage.actionItems :
          /\ storage'.actionItems[id].completed = FALSE
          /\ storage'.actionItems[id].completedAt = Null
          /\ Notes(storage', "new_assignment", id) = {storage.notificationId}
          /\ storage'.notificationId = storage.notificationId + 1]_vars

\* two items have been created by calls and an older one completed since
C23_Witness ==
  /\ storage.actionItemId = SeedItems + 3
  /\ storage.actionItems[1].completed
  /\ ~storage.actionItems[SeedItems + 2].completed
  /\ Cardinality(Assignments(storage)) = SeedItems + 2

\* C24: an incomplete item registered with a due date in the future, and never
\* completed afterwards, eventually gets its "due today" reminder once its due
\* time is reached; when the due date is more than a day ahead at registration
\* it gets a "due tomorrow" reminder as well, and gets it first.  (The clock
\* of the model stops at MaxTime: the items are those due by then.)
ExtractedIds == (SeedItems + 1)..(SeedItems + 2 * MaxRequests)
Reminders(s, id, message) ==
  {n \in Notes(s, "action_reminder", id) : s.notifications[n].message = message}
RegisteredAhead(id) ==
  /\ id \in DOMAIN storage.actionItems
  /\ storage.actionItems[id].dueDate > storage.actionItems[id].createdAt
  /\ storage.actionItems[id].dueDate <= MaxTime
EverCompleted(id) == Notes(storage, "item_completed", id) # {}

Reminded(id) ==
  /\ Reminders(storage, id, "is due today") # {}
  /\ BothArmed(storage.actionItems[id]) => Reminders(storage, id, "is due tomorrow") # {}

C25_StaleCallbackOnlyNotifies ==
  [][\A c \in inFlight.callbacks :
       CallbackResumes(c) =>
         LET added == DOMAIN storage'.notifications \ DOMAIN storage.notifications
         IN /\ [storage' EXCEPT !.notifications = storage.notifications,
                               !.notificationId = storage.notificationId] = storage
            /\ \A n \in DOMAIN storage.notifications :
                 storage'.notifications[n] = storage.notifications[n]
            /\ Cardinality(added) <= 1
            /\ \A n \in added :
                 /\ storage'.notifications[n].type = "action_reminder"
                 /\ storage'.notifications[n].actionItemId = c.timer.item
            /\ UNCHANGED <<scheduledJobs, timers, nextSweep>>]_vars

\* an item was completed while a callback for it was suspended: the item is
\* completed, with the completedAt of its completion, and an action_reminder
\* for it was created after its item_completed notification
C25_Witness ==
  \E id \in DOMAIN storage.actionItems :
    /\ storage.actionItems[id].completed
    /\ storage.actionItems[id].completedAt # Null
    /\ \E n \in Notes(storage, "item_completed", id),
          m \in Notes(storage, "action_reminder", id) :
         /\ n < m
         /\ storage.actionItems[id].completedAt = Some(storage.notifications[n].createdAt)

\* C26: updateActionItem and updateRecording on a stored entity change the
\* fields supplied, to the values supplied (so the later of two updates of a
\* field wins), and nothing else: not another field of the entity, not another
\* entity, no notification, no id counter, nothing of the scheduler.
\* Reopening an item creates no notification.
C26_UpdateChangesOnlySupplied ==
  [][/\ \A id \in ReopenedIds :
          (CallUpdateActionItem(id) /\ Has(storage.actionItems, id)) =>
            LET old == storage.actionItems[id]
                new == storage'.actionItems[id]
            IN /\ new.completed = FALSE
               /\ new.completedAt = Null
               /\ DOMAIN new = DOMAIN old
               /\ \A f \in DOMAIN old \ {"completed", "completedAt"} : new[f] = old[f]
               /\ [storage' EXCEPT !.actionItems[id] = old] = storage
               /\ UNCHANGED <<scheduledJobs, timers, nextSweep>>
     /\ \A id \in RecordingIds, u \in RecordingUpdates :
          (CallUpdateRecording(id, u) /\ Has(storage.recordings, id)) =>
            LET old == storage.recordings[id]
                new == storage'.recordings[id]
            IN /\ DOMAIN new = DOMAIN old \cup DOMAIN u
               /\ \A f \in DOMAIN u : new[f] = u[f]
               /\ \A f \in DOMAIN old \ DOMAIN u : new[f] = old[f]
               /\ [storage' EXCEPT !.recordings[id] = old] = storage
               /\ UNCHANGED <<scheduledJobs, timers, nextSweep>>]_vars

\* a recording was created and its status updated, and item 5 was reopened:
\* the recording keeps its id and createdAt, and no notification was added
C26_Witness ==
  /\ served = 3
  /\ Has(storage.recordings, "r1")
  /\ storage.recordings["r1"].status = "failed"
  /\ storage.recordings["r1"].id = "r1"
  /\ storage.recordings["r1"].createdAt # Null
  /\ ~storage.actionItems[5].completed
  /\ storage.actionItems[5].completedAt = Null
  /\ storage.notifications = NewMemStorage(0).notifications

\* C27: every notification names a stored action item, the one that triggered
\* it: a new_assignment names the item created in the same step, an
\* item_completed the item completed in that step, an action_reminder the item
\* of the timer that fired, an overdue_reminder an item that was overdue when
\* the daily check ran.
Triggered(note) ==
  LET id == note.actionItemId
  IN CASE note.type = "new_assignment" ->
            id \in DOMAIN storage'.actionItems \ DOMAIN storage.actionItems
       [] note.type = "item_completed" ->
            /\ id \in DOMAIN storage.actionItems
            /\ storage'.actionItems[id].completed
            /\ storage'.actionItems[id].completedAt = Some(now)
       [] note.type = "action_reminder" ->
            /\ \E t \in timers \ timers' : t.item = id /\ t.at <= now
            /\ ~storage.actionItems[id].completed
       [] note.type = "overdue_reminder" ->
            id \in getOverdueActionItems(storage, now)

C27_NotificationsNameTheirItem ==
  /\ [](\A n \in DOMAIN storage.notifications :
          /\ storage.notifications[n].type \in
               {"new_assignment", "item_completed", "action_reminder", "overdue_reminder"}
          /\ storage.notifications[n].actionItemId \in DOMAIN storage.actionItems)
  /\ [][\A n \in DOMAIN storage'.notifications \ DOMAIN storage.notifications :
          Triggered(storage'.notifications[n])]_vars

\* notifications of the four types have been created since the start
C27_Witness ==
  /\ served = MaxRequests
  /\ \A type \in {"new_assignment", "item_completed", "action_reminder", "overdue_reminder"} :
       \E n \in DOMAIN storage.notifications \ DOMAIN NewMemStorage(0).notifications :
         storage.notifications[n].type = type

\* C28: over any sequence of schedule, complete, uncomplete and initialize
\* steps, an item (its due date never changes) gets at most one "due
\* tomorrow" and at most one "due today" action_reminder.
C28_AtMostOneReminderOfEachKind ==
  \A id \in DOMAIN storage.actionItems :
    /\ Cardinality(Reminders(storage, id, "is due tomorrow")) <= 1
    /\ Cardinality(Reminders(storage, id, "is due today")) <= 1

\* the part that does hold: never two "due today" reminders
C28_AtMostOneDueToday ==
  \A id \in DOMAIN storage.actionItems :
    Cardinality(Reminders(storage, id, "is due today")) <= 1

\* C29: between two operations every id in scheduledJobs is the id of a stored
\* action item that is not completed; once a completion has finished, the
\* registry has no entry for the item, whether its due date was in the future
\* or already past when it was scheduled.
C29_RegistryHoldsIncompleteItems ==
  \A id \in DOMAIN scheduledJobs :
    /\ id \in DOMAIN storage.actionItems
    /\ ~storage.actionItems[id].completed

\* C30: right after construction the store holds 1 user, the decisions 1..3
\* and the action items 1..5, ids in creation order; only item 5 is completed
\* (completedAt not null) and only item 2 is overdue; there are exactly 6
\* notifications, a new_assignment for each item and an item_completed for
\* item 5, all unread; and initializeScheduler, run next, registers reminders
\* for exactly the items 1, 3 and 4.
AsConstructed(s, t) ==
  /\ DOMAIN s.users = 1..1
  /\ DOMAIN s.decisions = 1..3
  /\ DOMAIN s.actionItems = 1..5
  /\ \A id \in 1..5 : s.actionItems[id].id = id
  /\ \A id \in 1..4 : s.actionItems[id].createdAt <= s.actionItems[id + 1].createdAt
  /\ {id \in 1..5 : s.actionItems[id].completed} = {5}
  /\ s.actionItems[5].completedAt # Null
  /\ \A id \in 1..4 : s.actionItems[id].completedAt = Null
  /\ getOverdueActionItems(s, t) = {2}
  /\ Cardinality(DOMAIN s.notifications) = 6
  /\ \A id \in 1..5 : Cardinality(Notes(s, "new_assignment", id)) = 1
  /\ Cardinality(Notes(s, "item_completed", 5)) = 1
  /\ countUnreadNotifications(s) = 6
  /\ Unread(s) = DOMAIN s.notifications
  /\ s.recordings = EmptyMap

C30_SampleDataAndStart ==
  /\ [](~started => AsConstructed(storage, now))
  /\ [][\A m \in Midnights :
          InitializeScheduler(m) =>
            /\ DOMAIN scheduledJobs' = {1, 3, 4}
            /\ \A id \in {1, 3, 4} : scheduledJobs'[id] # Null
            /\ {t.item : t \in timers'} = {1, 3, 4}]_vars

\* the server has started on the store as constructed
C30_Witness ==
  /\ started
  /\ served = 0
  /\ now = 0
  /\ AsConstructed(storage, now)
  /\ DOMAIN scheduledJobs = {1, 3, 4}

====
